---- MODULE Spec2Model ----
(***************************************************************************)
(* A model of src/src/image_processing.py: the image holder MyImage, its   *)
(* three filter subclasses (ThresholdByNumber, ThresholdByPercentage,      *)
(* RednessDetector) and the asset directory they read from and write to.   *)
(*                                                                         *)
(* File names are sequences of atoms (a prefix code over strings, so two   *)
(* different sequences never spell the same name).  Pixel grids are        *)
(* records [shape, data] with data the row-major flattening of the numpy   *)
(* array.  Python floats are IEEE-754 doubles, modelled bit for bit:       *)
(* [s |-> sign, m |-> 53 mantissa bits (most significant first),           *)
(*  e |-> exponent of the leading bit].                                    *)
(***************************************************************************)
EXTENDS Integers, Sequences, FiniteSets, TLC

(***************************************************************************)
(* Bounds of the model.                                                    *)
(***************************************************************************)
\* the largest number of pixels (height * width) of a grid
MaxPixels == 2
\* the asset directory holds at most this many files (a full disk)
MaxFiles == 4
\* consecutive identical filter invocations are counted up to this number
MaxRep == 2

(***************************************************************************)
(* IEEE-754 double arithmetic, as far as the program uses it: a true       *)
(* division of two integers (percentage / 100, and the decimal literal of  *)
(* a sensitivity), a product with an integer-valued double (k * 255,       *)
(* green * sensitivity) and comparisons with an integer-valued double.     *)
(***************************************************************************)
\* the number of significand bits of a double
Precision == 53

Zero == [s |-> 0, m |-> <<>>, e |-> 0]

\* the w binary digits of n < 2^w, most significant first
ToBits(n, w) == [i \in 1..w |-> (n \div 2^(w - i)) % 2]

\* the number of binary digits of n, 0 for 0
BitLen(n) == CHOOSE w \in 0..30 : n < 2^w /\ (w = 0 \/ 2^(w - 1) <= n)

\* the binary digits of n, most significant first, none for 0
NatBits(n) == ToBits(n, BitLen(n))

RECURSIVE BitsValueTo(_, _)
\* the natural number the first n digits of a bit sequence spell
BitsValueTo(bits, n) ==
  IF n = 0 THEN 0 ELSE 2 * BitsValueTo(bits, n - 1) + bits[n]

BitsValue(bits) == BitsValueTo(bits, Len(bits))

RECURSIVE QuotBits(_, _, _)
\* the next binary digits of r / q after the point, at least n of them and
\* 16 at a time, for 0 <= r < q < 2^15
QuotBits(r, q, n) ==
  IF n <= 0 THEN <<>>
  ELSE ToBits((r * 65536) \div q, 16)
         \o QuotBits((r * 65536) % q, q, n - 16)

RECURSIVE QuotRem(_, _, _)
\* the remainder long division is left with after those digits
QuotRem(r, q, n) ==
  IF n <= 0 THEN r ELSE QuotRem((r * 65536) % q, q, n - 16)

RECURSIVE LeadingZeros(_, _)
\* the number of zero digits r / q starts with after the point, 0 < r < q
LeadingZeros(r, q) == IF 2 * r >= q THEN 0 ELSE 1 + LeadingZeros(2 * r, q)

\* bits + 1, of the same length, for bits that are not all ones: the last 0
\* becomes 1 and the ones after it become 0
BitInc(bits) ==
  LET j == CHOOSE i \in 1..Len(bits) :
             bits[i] = 0 /\ \A k \in (i + 1)..Len(bits) : bits[k] = 1
  IN [i \in 1..Len(bits) |-> IF i < j THEN bits[i] ELSE IF i = j THEN 1 ELSE 0]

\* round to nearest, ties to even: bits are the leading digits of a positive
\* number whose first digit (a 1) has exponent e; sticky says that non-zero
\* digits follow them
RoundNearestEven(sgn, bits, e, sticky) ==
  LET padded == IF Len(bits) > Precision THEN bits
                ELSE bits \o [i \in 1..(Precision + 1 - Len(bits)) |-> 0]
      keep   == SubSeq(padded, 1, Precision)
      half   == padded[Precision + 1]
      rest   == sticky \/ \E i \in (Precision + 2)..Len(padded) : padded[i] = 1
      up     == half = 1 /\ (rest \/ keep[Precision] = 1)
      carry  == \A i \in 1..Precision : keep[i] = 1
  IN IF ~up THEN [s |-> sgn, m |-> keep, e |-> e]
     ELSE IF carry
          THEN [s |-> sgn, m |-> <<1>> \o [i \in 1..(Precision - 1) |-> 0], e |-> e + 1]
          ELSE [s |-> sgn, m |-> BitInc(keep), e |-> e]

\* Python's a / b on integers (b > 0): the correctly rounded quotient
TrueDiv(a, b) ==
  LET n  == IF a < 0 THEN -a ELSE a
      sg == IF a < 0 THEN -1 ELSE 1
      ip == n \div b
      r  == n % b
  IN IF n = 0 THEN Zero
     ELSE IF ip > 0
          THEN LET ib == NatBits(ip)
                   k  == IF Len(ib) > Precision THEN 0 ELSE Precision + 1 - Len(ib)
               IN RoundNearestEven(sg, ib \o QuotBits(r, b, k), Len(ib) - 1,
                                   QuotRem(r, b, k) # 0)
          ELSE LET z == LeadingZeros(r, b)
                   q == QuotBits(r, b, z + Precision + 1)
               IN RoundNearestEven(sg, SubSeq(q, z + 1, Len(q)), -(z + 1),
                                   QuotRem(r, b, z + Precision + 1) # 0)

\* the digits of the product of a 53-digit significand and k in 1..255, by
\* limbs of 17, 18 and 18 digits
MulBits(bits, k) ==
  LET l2 == BitsValue(SubSeq(bits, 1, 17))
      l1 == BitsValue(SubSeq(bits, 18, 35))
      l0 == BitsValue(SubSeq(bits, 36, Precision))
      p0 == l0 * k
      p1 == l1 * k + p0 \div 262144
      p2 == l2 * k + p1 \div 262144
  IN NatBits(p2) \o ToBits(p1 % 262144, 18)
                 \o ToBits(p0 % 262144, 18)

\* the double product x * k for an integer k in 0..255 (k is exact as a double)
FloatMulInt(x, k) ==
  IF x.s = 0 \/ k = 0 THEN Zero
  ELSE LET prod == MulBits(x.m, k)
       IN RoundNearestEven(x.s, prod, x.e + (Len(prod) - Precision), FALSE)

\* the integer part of |x|, and whether |x| has a fractional part
IntPart(x) ==
  IF x.s = 0 \/ x.e < 0 THEN 0
  ELSE BitsValue(SubSeq(x.m, 1, x.e + 1))

HasFrac(x) ==
  x.s # 0 /\ (x.e < 0 \/ \E i \in (x.e + 2)..Precision : x.m[i] = 1)

\* n < x, n >= x and n > x for an integer n >= 0 and a double x
IntLess(n, x) ==
  x.s > 0 /\ (n < IntPart(x) \/ (n = IntPart(x) /\ HasFrac(x)))

IntGeq(n, x) ==
  x.s <= 0 \/ n > IntPart(x) \/ (n = IntPart(x) /\ ~HasFrac(x))

IntGreater(n, x) == x.s < 0 \/ (x.s = 0 /\ n > 0) \/ (x.s > 0 /\ n > IntPart(x))

(***************************************************************************)
(* File names and paths.                                                   *)
(***************************************************************************)
\* os.path.dirname(current_dir) + '/assets' (lines 39-40)
assets_dir == <<"assets">>

\* the last index of atom c in p, 0 when there is none (str.rfind, 1-based)
RFind(p, c) ==
  IF \E i \in 1..Len(p) : p[i] = c
  THEN CHOOSE i \in 1..Len(p) : p[i] = c /\ \A j \in (i + 1)..Len(p) : p[j] # c
  ELSE 0

\* os.path.join(assets_dir, filename): an absolute filename replaces the
\* directory
get_assets_path(filename) ==
  IF filename # <<>> /\ filename[1] = "/" THEN filename
  ELSE assets_dir \o <<"/">> \o filename

\* a splitext that takes the extension from the first dot on
splitext_first_dot(p) ==
  LET dots == {i \in 1..Len(p) : p[i] = "."}
      dotIndex == IF dots = {} THEN 0 ELSE CHOOSE i \in dots : \A j \in dots : i <= j
  IN IF dotIndex > 0
     THEN <<SubSeq(p, 1, dotIndex - 1), SubSeq(p, dotIndex, Len(p))>>
     ELSE <<p, <<>>>>

\* os.path.splitext: the extension starts at the last dot of the last path
\* component, unless only dots precede it there
splitext(p) ==
  LET sepIndex == RFind(p, "/")
      dotIndex == RFind(p, ".")
  IN IF dotIndex > sepIndex /\ \E i \in (sepIndex + 1)..(dotIndex - 1) : p[i] # "."
     THEN <<SubSeq(p, 1, dotIndex - 1), SubSeq(p, dotIndex, Len(p))>>
     ELSE <<p, <<>>>>

Digits == <<"0", "1", "2", "3", "4", "5", "6", "7", "8", "9">>

RECURSIVE NatStr(_)
\* the decimal digits of n >= 0
NatStr(n) ==
  IF n < 10 THEN <<Digits[n + 1]>> ELSE Append(NatStr(n \div 10), Digits[(n % 10) + 1])

\* str(n) of a Python int, as an f-string formats it
IntStr(n) == IF n < 0 THEN <<"-">> \o NatStr(-n) ELSE NatStr(n)

\* f'_threshold_{threshold_value}' (line 119)
threshold_suffix(threshold_value) == <<"_threshold_">> \o IntStr(threshold_value)

\* f'_threshold_{percentage}percent' (line 149)
percent_suffix(percentage) == <<"_threshold_">> \o IntStr(percentage) \o <<"percent">>

\* f'_red_detection_sens_{sensitivity}' (line 200); sensitivity.repr is the
\* text Python prints for the float
red_suffix(sensitivity) == <<"_red_detection_sens_">> \o sensitivity.repr

(***************************************************************************)
(* The inputs the model draws from.                                        *)
(***************************************************************************)
NameA == <<"photo", ".", "png">>
NameB == <<".", "b", ".", "c", ".", "jpg">>
NameC == <<"c", ".", "png">>
NameD == <<"photo", "_red_detection_sens_", "1", ".", "2", ".", "png">>

\* the names set_image is called with: two images, an undecodable file and
\* a name that is no file at first
LoadNames == {NameA, NameB, NameC, NameD}

Thresholds == {-1, 0, 51, 256}
Percentages == {-5, 0, 20, 50, 100, 101}

\* sensitivity literals num/den, with the text of the float they denote
Sensitivities ==
  { [num |-> 1,  den |-> 2,  repr |-> <<"0", ".", "5">>],
    [num |-> 7,  den |-> 10, repr |-> <<"0", ".", "7">>],
    [num |-> 1,  den |-> 1,  repr |-> <<"1", ".", "0">>],
    [num |-> 12, den |-> 10, repr |-> <<"1", ".", "2">>] }

\* the suffixes save_processed_image is called with directly
Suffixes == {<<"_processed">>}

GraySamples == {0, 51, 255}
RGBPixels == {<<255, 0, 0>>, <<128, 128, 128>>, <<6, 5, 0>>, <<63, 90, 0>>}

\* every sample value that occurs in a grid of the model
Samples == {0, 5, 6, 51, 63, 90, 128, 255}

Shapes == {sh \in (1..MaxPixels) \X (1..MaxPixels) : sh[1] * sh[2] <= MaxPixels}

GrayGrids ==
  UNION {{[shape |-> sh, data |-> d] : d \in [1..(sh[1] * sh[2]) -> GraySamples]} :
         sh \in Shapes}

RGBGrids ==
  UNION {{[shape |-> <<sh[1], sh[2], 3>>,
           data |-> [i \in 1..(3 * sh[1] * sh[2]) |->
                       px[((i - 1) \div 3) + 1][((i - 1) % 3) + 1]]] :
          px \in [1..(sh[1] * sh[2]) -> RGBPixels]} :
         sh \in Shapes}

\* grids with a channel dimension that is not 3: RGBA and gray with alpha
OtherGrids ==
  { [shape |-> <<1, 1, 4>>, data |-> <<255, 0, 0, 255>>],
    [shape |-> <<1, 1, 2>>, data |-> <<51, 255>>] }

Grids == GrayGrids \cup RGBGrids \cup OtherGrids

GridB == [shape |-> <<1, 2>>, data |-> <<51, 255>>]

\* the images NameA holds in the runs that follow one object through loads,
\* filters and saves: a red pixel beside a gray one, and a grayscale image
SourceGrids ==
  { [shape |-> <<1, 2, 3>>, data |-> <<255, 0, 0, 128, 128, 128>>],
    [shape |-> <<2, 1>>, data |-> <<0, 255>>] }

Classes == {"ThresholdByNumber", "ThresholdByPercentage", "RednessDetector"}

\* what a file holds that no decoder accepts
Corrupt == [shape |-> <<>>, data |-> <<>>]
NoGrid == [shape |-> <<0>>, data |-> <<>>]
NoValue == <<>>

(***************************************************************************)
(* The state: the asset directory and one image object.                    *)
(***************************************************************************)
VARIABLES
  fs,             \* the files of the asset directory: path -> grid or Corrupt
  cls,            \* the class of the object
  image_path,     \* self.image_path
  img_array,      \* self.img_array
  original_name,  \* self.original_name
  loaded,         \* history: the grid the last successful load decoded
  last            \* history: the last call, its argument, the img_array
                  \* before it, its outcome and the imwrite calls it made

vars == <<fs, cls, image_path, img_array, original_name, loaded, last>>

(***************************************************************************)
(* The image codec (imageio).                                              *)
(***************************************************************************)
\* im.v2.imread(path): the decoded grid, or a failure for a missing or
\* undecodable file
imread(files, path) ==
  IF path \in DOMAIN files /\ files[path] # Corrupt
  THEN [ok |-> TRUE, grid |-> files[path]]
  ELSE [ok |-> FALSE, grid |-> NoGrid]

\* the directory after a successful im.imwrite(path, arr)
Written(files, path, arr) ==
  [q \in DOMAIN files \cup {path} |-> IF q = path THEN arr ELSE files[q]]

\* whether the directory has room for a file at path
HasRoom(files, path) ==
  path \in DOMAIN files \/ Cardinality(DOMAIN files) < MaxFiles

\* the directories a failed im.imwrite(path, arr) may leave: the old one, or
\* one with an unfinished file at path
FailedWrites(files, path) ==
  {files} \cup (IF HasRoom(files, path) THEN {Written(files, path, Corrupt)} ELSE {})

(***************************************************************************)
(* The filters as functions of the array.                                  *)
(***************************************************************************)
\* np.zeros(shape) and np.zeros_like(arr)
zeros(arr) == [shape |-> arr.shape, data |-> [i \in DOMAIN arr.data |-> 0]]

\* x.astype(np.uint8)
astype_uint8(arr) == [shape |-> arr.shape, data |-> [i \in DOMAIN arr.data |-> arr.data[i] % 256]]

\* a threshold that sends a sample equal to threshold_value to black
threshold_by_number_strict(arr, threshold_value) ==
  [shape |-> arr.shape,
   data |-> [i \in DOMAIN arr.data |-> IF arr.data[i] > threshold_value THEN 255 ELSE 0]]

\* a threshold with the two assignments swapped: white below, black above
threshold_by_number_swapped(arr, threshold_value) ==
  [shape |-> arr.shape,
   data |-> [i \in DOMAIN arr.data |-> IF arr.data[i] < threshold_value THEN 255 ELSE 0]]

\* lines 109-116: compare every sample with the integer threshold_value
threshold_by_number(arr, threshold_value) ==
  LET new0 == zeros(arr).data
      new1 == [i \in DOMAIN new0 |-> IF arr.data[i] < threshold_value THEN 0 ELSE new0[i]]
      new2 == [i \in DOMAIN new0 |-> IF arr.data[i] >= threshold_value THEN 255 ELSE new1[i]]
  IN astype_uint8([shape |-> arr.shape, data |-> new2])

\* a threshold value computed with the floor division percentage // 100
percentage_threshold_floor(percentage) ==
  FloatMulInt(TrueDiv(percentage \div 100, 1), 255)

\* line 139: threshold_value = (percentage / 100) * 255, a double
percentage_threshold_value(percentage) == FloatMulInt(TrueDiv(percentage, 100), 255)

\* self.img_array < threshold_value and self.img_array >= threshold_value
\* (lines 142-143) at a sample of value v
percentage_below(v, percentage) == IntLess(v, percentage_threshold_value(percentage))
percentage_reached(v, percentage) == IntGeq(v, percentage_threshold_value(percentage))

\* the two comparisons, computed once for every percentage and sample value
below_table ==
  [pv \in Percentages \X Samples |-> percentage_below(pv[2], pv[1])] @@ <<>>
reached_table ==
  [pv \in Percentages \X Samples |-> percentage_reached(pv[2], pv[1])] @@ <<>>

\* lines 136-146: compare every sample with the double threshold_value
threshold_by_percentage(arr, percentage) ==
  LET new0 == zeros(arr).data
      new1 == [i \in DOMAIN new0 |->
                 IF below_table[<<percentage, arr.data[i]>>] THEN 0 ELSE new0[i]]
      new2 == [i \in DOMAIN new0 |->
                 IF reached_table[<<percentage, arr.data[i]>>] THEN 255 ELSE new1[i]]
  IN astype_uint8([shape |-> arr.shape, data |-> new2])

\* line 176: the image is RGB
is_rgb(arr) == Len(arr.shape) = 3 /\ arr.shape[3] = 3

\* the double a sensitivity literal denotes
sens_value(sensitivity) == TrueDiv(sensitivity.num, sensitivity.den)

\* a comparison that lets red equal to the product pass
red_reaches(red, other, sensitivity) ==
  IntGeq(red, FloatMulInt(sens_value(sensitivity), other))

\* red_channel > other_channel * sensitivity (lines 188-189) at one pixel
red_exceeds(red, other, sensitivity) ==
  IntGreater(red, FloatMulInt(sens_value(sensitivity), other))

\* that comparison, computed once for every sensitivity and pair of samples
exceeds_table ==
  [t \in Sensitivities \X Samples \X Samples |-> red_exceeds(t[2], t[3], t[1])] @@ <<>>

\* a mask that asks red to exceed only one of the two other channels
red_mask_either(red, green, blue, sensitivity) ==
  \/ exceeds_table[<<sensitivity, red, green>>]
  \/ exceeds_table[<<sensitivity, red, blue>>]

\* lines 188-189 at one pixel
red_mask_at(red, green, blue, sensitivity) ==
  /\ exceeds_table[<<sensitivity, red, green>>]
  /\ exceeds_table[<<sensitivity, red, blue>>]

\* lines 181-189: the mask, one entry per pixel
red_mask(arr, sensitivity) ==
  [k \in 1..(arr.shape[1] * arr.shape[2]) |->
     red_mask_at(arr.data[3 * k - 2], arr.data[3 * k - 1], arr.data[3 * k], sensitivity)]

\* lines 192-197: white where the mask holds, black elsewhere
red_image(arr, sensitivity) ==
  LET mask == red_mask(arr, sensitivity)
      new0 == zeros(arr).data
      new1 == [i \in DOMAIN new0 |-> IF mask[((i - 1) \div 3) + 1] THEN 255 ELSE new0[i]]
      new2 == [i \in DOMAIN new0 |-> IF ~mask[((i - 1) \div 3) + 1] THEN 0 ELSE new1[i]]
  IN astype_uint8([shape |-> arr.shape, data |-> new2])

(***************************************************************************)
(* The log of a call.                                                      *)
(***************************************************************************)
Min(a, b) == IF a < b THEN a ELSE b

\* how many times in a row the filter has now been invoked with this argument
Streak(op, arg) ==
  IF last.op = op /\ last.rep > 0 /\ last.arg = arg THEN Min(last.rep + 1, MaxRep) ELSE 1

\* the log entry of a call that has not written anything
Entry(op, arg, status) ==
  [op |-> op, arg |-> arg, pre |-> img_array, status |-> status,
   writes |-> <<>>, ret |-> NoValue, rep |-> 0, once |-> NoGrid, shown |-> NoGrid]

\* the log entry of a filter invocation that leaves new in img_array
FilterEntry(op, arg, new) ==
  [Entry(op, arg, "ok") EXCEPT
     !.rep = Streak(op, arg),
     !.once = IF Streak(op, arg) = 1 THEN new ELSE last.once]

(***************************************************************************)
(* The operations.                                                         *)
(***************************************************************************)
\* lines 86-92 with arr in self.img_array: derive the name from
\* original_name, write, return the path; a failing imwrite raises
save_step(arr, suffix, entry) ==
  LET name == splitext(original_name)[1]
      ext == splitext(original_name)[2]
      new_filename == name \o suffix \o ext
      new_path == get_assets_path(new_filename)
  IN \/ /\ HasRoom(fs, new_path)
        /\ fs' = Written(fs, new_path, arr)
        /\ last' = [entry EXCEPT !.status = "ok", !.writes = <<new_path>>,
                                 !.ret = new_path]
     \/ /\ fs' \in FailedWrites(fs, new_path)
        /\ last' = [entry EXCEPT !.status = "EncodeError", !.writes = <<new_path>>]

\* MyImage.set_image (lines 55-57)
set_image ==
  \E image_name \in LoadNames :
    LET path == get_assets_path(image_name)
        r == imread(fs, path)
    IN /\ image_path' = path
       /\ IF r.ok
          THEN /\ img_array' = r.grid
               /\ original_name' = image_name
               /\ loaded' = r.grid
               /\ last' = Entry("set_image", image_name, "ok")
          ELSE /\ UNCHANGED <<img_array, original_name, loaded>>
               /\ last' = Entry("set_image", image_name, "DecodeError")
       /\ UNCHANGED <<fs, cls>>

\* MyImage.save_processed_image called by the user (lines 86-92)
save_processed_image ==
  /\ \E suffix \in Suffixes :
       save_step(img_array, suffix, Entry("save_processed_image", suffix, "ok"))
  /\ UNCHANGED <<cls, image_path, img_array, original_name, loaded>>

\* an apply_threshold that saves before it replaces img_array
number_apply_threshold_saves_first ==
  /\ cls = "ThresholdByNumber"
  /\ \E threshold_value \in Thresholds :
       LET new == threshold_by_number(img_array, threshold_value)
       IN /\ img_array' = new
          /\ save_step(img_array, threshold_suffix(threshold_value),
                       FilterEntry("apply_threshold", threshold_value, new))
  /\ UNCHANGED <<cls, image_path, original_name, loaded>>

\* ThresholdByNumber.apply_threshold (lines 109-119)
number_apply_threshold ==
  /\ cls = "ThresholdByNumber"
  /\ \E threshold_value \in Thresholds :
       LET new == threshold_by_number(img_array, threshold_value)
       IN /\ img_array' = new
          /\ save_step(new, threshold_suffix(threshold_value),
                       FilterEntry("apply_threshold", threshold_value, new))
  /\ UNCHANGED <<cls, image_path, original_name, loaded>>

\* ThresholdByPercentage.apply_threshold (lines 136-149)
percentage_apply_threshold ==
  /\ cls = "ThresholdByPercentage"
  /\ \E percentage \in Percentages :
       LET new == threshold_by_percentage(img_array, percentage)
       IN /\ img_array' = new
          /\ save_step(new, percent_suffix(percentage),
                       FilterEntry("apply_threshold", percentage, new))
  /\ UNCHANGED <<cls, image_path, original_name, loaded>>

\* a detect_red_areas that reports the unsupported format and saves all
\* the same
detect_red_areas_saves_anyway ==
  /\ cls = "RednessDetector"
  /\ \E sensitivity \in Sensitivities :
       IF ~is_rgb(img_array)
       THEN /\ save_step(img_array, red_suffix(sensitivity),
                         [FilterEntry("detect_red_areas", sensitivity, img_array)
                            EXCEPT !.status = "UnsupportedFormatError"])
            /\ UNCHANGED img_array
       ELSE LET new == red_image(img_array, sensitivity)
            IN /\ img_array' = new
               /\ save_step(new, red_suffix(sensitivity),
                            FilterEntry("detect_red_areas", sensitivity, new))
  /\ UNCHANGED <<cls, image_path, original_name, loaded>>

\* RednessDetector.detect_red_areas (lines 176-206)
detect_red_areas ==
  /\ cls = "RednessDetector"
  /\ \E sensitivity \in Sensitivities :
       IF ~is_rgb(img_array)
       THEN /\ last' = [FilterEntry("detect_red_areas", sensitivity, img_array)
                          EXCEPT !.status = "UnsupportedFormatError"]
            /\ UNCHANGED <<fs, img_array>>
       ELSE LET new == red_image(img_array, sensitivity)
            IN /\ img_array' = new
               /\ save_step(new, red_suffix(sensitivity),
                            FilterEntry("detect_red_areas", sensitivity, new))
  /\ UNCHANGED <<cls, image_path, original_name, loaded>>

\* RednessDetector.show_before_after (line 214): the left panel shows what
\* image_path decodes to
show_before_after ==
  /\ cls = "RednessDetector"
  /\ LET r == imread(fs, image_path)
     IN last' = [Entry("show_before_after", NoValue, IF r.ok THEN "ok" ELSE "DecodeError")
                   EXCEPT !.shown = r.grid]
  /\ UNCHANGED <<fs, cls, image_path, img_array, original_name, loaded>>

\* the state after MyImage.__init__ (lines 24-26) has succeeded on NameA,
\* which held grid g, for an object of class c
Constructed(g, c) ==
  /\ fs = [q \in {get_assets_path(NameA), get_assets_path(NameB), get_assets_path(NameC)} |->
             IF q = get_assets_path(NameA) THEN g
             ELSE IF q = get_assets_path(NameB) THEN GridB ELSE Corrupt]
  /\ cls = c
  /\ image_path = get_assets_path(NameA)
  /\ img_array = g
  /\ original_name = NameA
  /\ loaded = g
  /\ last = [op |-> "__init__", arg |-> NameA, pre |-> NoGrid, status |-> "ok",
             writes |-> <<>>, ret |-> NoValue, rep |-> 0, once |-> NoGrid,
             shown |-> NoGrid]

\* the life of one object: any class, a few images, every operation
Init == \E g \in SourceGrids, c \in Classes : Constructed(g, c)

Next ==
  \/ set_image
  \/ save_processed_image
  \/ number_apply_threshold
  \/ percentage_apply_threshold
  \/ detect_red_areas
  \/ show_before_after

Spec == Init /\ [][Next]_vars

\* the filters on every grid: any class, any image, filter invocations only
InitFilters == \E g \in Grids, c \in Classes : Constructed(g, c)

NextFilters ==
  \/ number_apply_threshold
  \/ percentage_apply_threshold
  \/ detect_red_areas

SpecFilters == InitFilters /\ [][NextFilters]_vars

(***************************************************************************)
(* What the claims are stated with.                                        *)
(***************************************************************************)
IsNumberThreshold == cls = "ThresholdByNumber" /\ last.op = "apply_threshold"
IsPercentageThreshold == cls = "ThresholdByPercentage" /\ last.op = "apply_threshold"
\* detect_red_areas has run on a 3-channel grid
IsDetection == last.op = "detect_red_areas" /\ is_rgb(last.pre)
\* detect_red_areas has run on a grid that is not 3-channel
IsRejectedDetection == last.op = "detect_red_areas" /\ ~is_rgb(last.pre)
\* a filter has run: it has replaced img_array and called save_processed_image
IsFilter == last.op = "apply_threshold" \/ IsDetection

SameShape(a, b) == a.shape = b.shape /\ DOMAIN a.data = DOMAIN b.data
AllSamples(arr, v) == \A i \in DOMAIN arr.data : arr.data[i] = v
SomeSample(arr, v) == \E i \in DOMAIN arr.data : arr.data[i] = v

\* the grid the filter of the last call makes of the grid it found
Filtered ==
  IF IsNumberThreshold THEN threshold_by_number(last.pre, last.arg)
  ELSE IF IsPercentageThreshold THEN threshold_by_percentage(last.pre, last.arg)
  ELSE red_image(last.pre, last.arg)

\* the suffix the last call saved under
SavedSuffix ==
  IF last.op = "save_processed_image" THEN last.arg
  ELSE IF IsNumberThreshold THEN <<"_threshold_">> \o IntStr(last.arg)
  ELSE IF IsPercentageThreshold THEN <<"_threshold_">> \o IntStr(last.arg) \o <<"percent">>
  ELSE <<"_red_detection_sens_">> \o last.arg.repr

\* the stems and extensions the source names of the model are made of
Stems == { <<"photo">>, <<".", "b", ".", "c">>,
           <<"photo", "_red_detection_sens_", "1", ".", "2">> }
Exts == { <<".", "png">>, <<".", "jpg">> }

(***************************************************************************)
(* The claims.                                                             *)
(***************************************************************************)
\* C1: ThresholdByNumber.apply_threshold(t) takes every integer t, keeps the
\* shape, and leaves each sample at 255 exactly when the sample it found
\* there was >= t and at 0 otherwise, each channel sample on its own; so
\* t <= 0 gives all white and t > 255 all black.  The only failure it can
\* end in is that of the save step.
C1_NumberThreshold ==
  IsNumberThreshold =>
    /\ last.status \in {"ok", "EncodeError"}
    /\ SameShape(img_array, last.pre)
    /\ \A i \in DOMAIN img_array.data :
         /\ img_array.data[i] \in {0, 255}
         /\ img_array.data[i] = 255 <=> last.pre.data[i] >= last.arg
    /\ last.arg <= 0 => AllSamples(img_array, 255)
    /\ last.arg > 255 => AllSamples(img_array, 0)

\* C1 happens: an RGB grid with a sample of 255 has been thresholded at 256
\* and is all black
C1_Witness ==
  /\ IsNumberThreshold
  /\ last.arg = 256
  /\ Len(last.pre.shape) = 3
  /\ SomeSample(last.pre, 255)
  /\ AllSamples(img_array, 0)

\* C2: ThresholdByPercentage.apply_threshold(p) leaves each sample at 255
\* exactly when 100 * sample >= 255 * p for the sample it found there, and
\* at 0 otherwise; p = 0 gives all white, p = 100 white exactly at 255.
C2_PercentageThreshold ==
  IsPercentageThreshold =>
    /\ SameShape(img_array, last.pre)
    /\ \A i \in DOMAIN img_array.data :
         img_array.data[i] =
           IF 100 * last.pre.data[i] >= 255 * last.arg THEN 255 ELSE 0
    /\ last.arg = 0 => AllSamples(img_array, 255)
    /\ last.arg = 100 =>
         \A i \in DOMAIN img_array.data :
           img_array.data[i] = 255 <=> last.pre.data[i] = 255

\* C2 happens: at p = 20 the threshold is the double 51.0, and a sample of
\* 51 has gone white beside a sample of 0 that has gone black
C2_Witness ==
  /\ IsPercentageThreshold
  /\ last.arg = 20
  /\ \E i, j \in DOMAIN img_array.data :
       /\ last.pre.data[i] = 51 /\ img_array.data[i] = 255
       /\ last.pre.data[j] = 0 /\ img_array.data[j] = 0

\* the pixels of a 3-channel grid
PixelsOf(arr) == 1..(arr.shape[1] * arr.shape[2])
Red(arr, k) == arr.data[3 * k - 2]
Green(arr, k) == arr.data[3 * k - 1]
Blue(arr, k) == arr.data[3 * k]
IsWhite(arr, k) == Red(arr, k) = 255 /\ Green(arr, k) = 255 /\ Blue(arr, k) = 255
IsBlack(arr, k) == Red(arr, k) = 0 /\ Green(arr, k) = 0 /\ Blue(arr, k) = 0

\* the double products of the sensitivity literal 1.2 with every sample
\* value decide red > other * 1.2 as the exact 10 * red > 12 * other does
ExactAtDefaultSensitivity ==
  \A other \in 0..255 :
    LET product == FloatMulInt(TrueDiv(12, 10), other)
    IN IntPart(product) = (12 * other) \div 10
       /\ (HasFrac(product) <=> (12 * other) % 10 # 0)

C4_RejectsNonRGB ==
  [][(last'.op = "detect_red_areas" /\ ~is_rgb(img_array)) =>
       /\ last'.status = "UnsupportedFormatError"
       /\ img_array' = img_array
       /\ fs' = fs
       /\ last'.writes = <<>>]_vars

\* C4 happens: detect_red_areas has been called on a 2D grayscale grid
C4_Witness ==
  /\ IsRejectedDetection
  /\ Len(last.pre.shape) = 2
  /\ last.status = "UnsupportedFormatError"
  /\ img_array = last.pre

\* C5: every call that reaches the save step writes to the file
\* stem + suffix + ext of the asset directory, where stem + ext is
\* original_name, a name the object was loaded with, and suffix is that of
\* the call alone; a save that succeeds returns that path and leaves
\* img_array in that file.
C5_DerivedName ==
  (last.op = "save_processed_image" \/ IsFilter) =>
    /\ original_name \in LoadNames
    /\ \E stem \in Stems, ext \in Exts : original_name = stem \o ext
    /\ \A stem \in Stems, ext \in Exts :
         original_name = stem \o ext =>
           LET path == <<"assets", "/">> \o stem \o SavedSuffix \o ext
           IN /\ last.writes = <<path>>
              /\ last.status = "ok" =>
                   /\ last.ret = path
                   /\ path \in DOMAIN fs
                   /\ fs[path] = img_array

\* C5 happens: after an earlier filter invocation, a threshold at 51 on
\* photo.png has written photo_threshold_51.png
C5_Witness ==
  /\ IsNumberThreshold
  /\ last.status = "ok"
  /\ last.pre # loaded
  /\ original_name = NameA
  /\ last.ret = <<"assets", "/", "photo", "_threshold_", "5", "1", ".", "png">>

\* C6: a threshold filter invoked again with the same parameter leaves
\* img_array as the first invocation left it.
C6_ThresholdIdempotent ==
  (last.op = "apply_threshold" /\ last.rep >= 2) => img_array = last.once

\* C6 happens: a percentage threshold at 20 has been applied twice in a row
\* to a grid it leaves neither all white nor all black
C6_Witness ==
  /\ IsPercentageThreshold
  /\ last.rep >= 2
  /\ last.arg = 20
  /\ SomeSample(last.once, 0)
  /\ SomeSample(last.once, 255)

\* C7 as claimed: detect_red_areas invoked again with the same sensitivity
\* on a 3-channel grid leaves img_array as the first invocation left it.
C7_DetectionIdempotent ==
  (IsDetection /\ last.rep >= 2) => img_array = last.once

\* C7 as amended: detect_red_areas invoked again with the same sensitivity
\* s on a 3-channel grid leaves img_array as the first invocation left it
\* when s < 1, and all black when s >= 1.
C7_SecondDetection ==
  (IsDetection /\ last.rep >= 2) =>
    IF last.arg.num < last.arg.den
    THEN img_array = last.once
    ELSE SameShape(img_array, last.once) /\ AllSamples(img_array, 0)

\* C7 happens: at s = 1.2 the first invocation marked a pixel white and the
\* second has left the grid all black
C7_Witness ==
  /\ IsDetection
  /\ last.rep >= 2
  /\ last.arg.repr = <<"1", ".", "2">>
  /\ SomeSample(last.once, 255)
  /\ AllSamples(img_array, 0)

\* C8: after a filter, img_array is the filtered grid whether the save
\* succeeded or failed; imwrite has been called once; a failed save is the
\* outcome of the call; a successful one has left the filtered grid in the
\* file it wrote.
C8_MutateThenSave ==
  IsFilter =>
    /\ img_array = Filtered
    /\ Len(last.writes) = 1
    /\ last.status \in {"ok", "EncodeError"}
    /\ last.status = "EncodeError" => last.ret = NoValue
    /\ last.status = "ok" =>
         /\ last.ret = last.writes[1]
         /\ last.writes[1] \in DOMAIN fs
         /\ fs[last.writes[1]] = Filtered

\* C8 happens: the save of a filter has failed and img_array is the
\* filtered grid, not the grid the filter found
C8_Witness ==
  /\ IsFilter
  /\ last.status = "EncodeError"
  /\ img_array # last.pre
  /\ img_array = Filtered

\* C9 as claimed: whenever show_before_after decodes its "before" image, it
\* is the grid the last successful load decoded.
C9_BeforeViewIsLoaded ==
  (last.op = "show_before_after" /\ last.status = "ok") => last.shown = loaded

\* C9 while no set_image has left image_path behind: if image_path is the
\* asset path of original_name, show_before_after decodes the loaded grid.
C9_WhilePathMatches ==
  (last.op = "show_before_after" /\ image_path = get_assets_path(original_name)) =>
    last.status = "ok" /\ last.shown = loaded

\* C10 as claimed: image_path is the asset path of original_name.
C10_PathOfName == image_path = get_assets_path(original_name)
====
